---- MODULE Spec2Model ----
(***************************************************************************)
(* Model of the NovaMind build-tooling scripts.                            *)
(*                                                                         *)
(* Part 1: create_clean_project.py, the project-descriptor generator.      *)
(* create_xcode_project() is a straight-line program: make the project     *)
(* directory, walk the source tree, give every Swift file two identifiers, *)
(* draw the identifiers of the fixed entities, render the descriptor text  *)
(* (drawing further identifiers inline) and write it to disk.              *)
(*                                                                         *)
(* A character string the code inspects (a file name, a path) is a         *)
(* sequence of one-character strings; an identifier is a natural number.   *)
(* generate_uuid() truncates a random UUID: it returns a token never       *)
(* issued before or, with small probability, one already issued in the     *)
(* run.  The model keeps both outcomes.                                    *)
(*                                                                         *)
(* Part 2: fix_project_paths.py, fix_project_paths_v2.py and               *)
(* fix_project_paths_v4.py, the patch scripts (specification SpecPatch).   *)
(* Part 3: test_azure_connection.py (specification SpecConn).              *)
(* Part 4: scripts/optimize_with_azure.py (specification SpecOpt).         *)
(* Each script is a program of its own: a specification runs one script    *)
(* and leaves the variables of the others at rest.                         *)
(***************************************************************************)
EXTENDS Integers, Sequences, FiniteSets, TLC

\* ---------------------------------------------------------------- bounds
\* most files the walked source tree holds
MaxFiles == 2
\* most calls of generate_uuid in one run that repeat an issued token
MaxCollisions == 1

\* ------------------------------------------------------------- constants
project_name == "NovaMind"

\* count of generate_uuid() calls of lines 40-46
NamedCount == 7
\* count of generate_uuid() calls written inline in the template, lines 68-356
InlineCount == 19

\* '.swift', the suffix of line 19
SwiftSuffix == <<".", "s", "w", "i", "f", "t">>

\* ----------------------------------------------------- character strings
Sep == "/"

\* str.endswith
EndsWith(s, suf) ==
    /\ Len(s) >= Len(suf)
    /\ SubSeq(s, Len(s) - Len(suf) + 1, Len(s)) = suf

\* index of the last separator of p, 0 when it has none
LastSep(p) ==
    LET idx == {i \in 1..Len(p) : p[i] = Sep}
    IN IF idx = {} THEN 0 ELSE CHOOSE i \in idx : \A j \in idx : j <= i

\* a basename that keeps the directories
Basename_WholePath(p) == p

\* os.path.basename: what follows the last separator
Basename(p) == SubSeq(p, LastSep(p) + 1, Len(p))

\* os.path.relpath(os.path.join(root, file), "NovaMind"), root given
\* relative to "NovaMind" (empty for the top directory)
RelPath(dir, file) == IF dir = <<>> THEN file ELSE dir \o <<Sep>> \o file

\* ------------------------------------------------------- the source tree
File_A  == [dir |-> <<>>,    file |-> <<"A", ".", "s", "w", "i", "f", "t">>]
File_BC == [dir |-> <<>>,    file |-> <<"B", " ", "C", ".", "s", "w", "i", "f", "t">>]
File_R  == [dir |-> <<>>,    file |-> <<"R", ".", "m", "d">>]
File_VA == [dir |-> <<"V">>, file |-> <<"A", ".", "s", "w", "i", "f", "t">>]

FilePool == {File_A, File_BC, File_R, File_VA}

\* os.walk is top-down: the files of the top directory come before the
\* files of its subdirectories, and no file is visited twice
WalkOrdered(t) ==
    /\ \A i, j \in 1..Len(t) : i # j => t[i] # t[j]
    /\ \A i, j \in 1..Len(t) : (i < j /\ t[i].dir # <<>>) => t[j].dir # <<>>

Trees ==
    {t \in UNION {[1..n -> FilePool] : n \in 0..MaxFiles} : WalkOrdered(t)}

RootStates == {"ok", "missing", "unreadable"}

NoFile == [written |-> FALSE]

VARIABLES
    pc,               \* position in create_xcode_project
    rootState,        \* the directory "NovaMind": ok, missing or unreadable
    tree,             \* the files os.walk visits, in its order
    walkIdx,          \* files of the tree visited so far
    swift_files,      \* relative paths found (line 16)
    loopIdx,          \* files of swift_files given identifiers so far
    issued,           \* count of distinct tokens generate_uuid returned
    collisions,       \* calls of generate_uuid that repeated a token
    file_refs,        \* line 26
    build_files,      \* line 27
    sources_list,     \* line 28
    named,            \* identifiers of lines 40-46, in that order
    inline,           \* identifiers drawn inside the template, in text order
    project_content,  \* the rendered descriptor (line 48)
    projDir,          \* NovaMind.xcodeproj exists
    pbxproj           \* NovaMind.xcodeproj/project.pbxproj

vars == <<pc, rootState, tree, walkIdx, swift_files, loopIdx, issued,
          collisions, file_refs, build_files, sources_list, named, inline,
          project_content, projDir, pbxproj>>

\* ------------------------------------------------- the patch scripts' state
VARIABLES
    script,           \* which patch script runs: "v1", "v2" or "v4"
    argc,             \* len(sys.argv)
    ppc,              \* position in main
    pidx,             \* entries of the current list handled so far
    disk,             \* the descriptor file at project_path
    project,          \* the graph XcodeProject.load returned
    files_to_remove_refs, \* fix_project_paths.py line 40
    exitCode,         \* exit code of the process, -1 while it runs
    raised,           \* a call of the try block raised an exception
    saves,            \* calls of project.save() in this run
    loaded,           \* the descriptor file as it was when the run began
    runs              \* the descriptor file at the end of each earlier run

patchVars == <<script, argc, ppc, pidx, disk, project, files_to_remove_refs,
               exitCode, raised, saves, loaded, runs>>

\* no descriptor: an unparsable file, or nothing loaded yet
NoGraph == [valid |-> FALSE, objects |-> <<>>]

\* no patch script runs
PatchIdle ==
    /\ script = "none"
    /\ argc = 0
    /\ ppc = "idle"
    /\ pidx = 0
    /\ disk = NoGraph
    /\ project = NoGraph
    /\ files_to_remove_refs = {}
    /\ exitCode = -1
    /\ raised = FALSE
    /\ saves = 0
    /\ loaded = NoGraph
    /\ runs = <<>>

\* ------------------------------------- the state of test_azure_connection.py
VARIABLES
    cpc,              \* position in the script
    verIdx,           \* entries of api_versions the loop has left behind
    requests,         \* the requests sent so far: version and outcome
    response,         \* what the last request returned, "none" before
    success,          \* what test_azure_openai_connection returned
    secrets_script    \* setup_github_secrets.sh has been written

connVars == <<cpc, verIdx, requests, response, success, secrets_script>>

\* test_azure_connection.py does not run
ConnIdle ==
    /\ cpc = "idle"
    /\ verIdx = 0
    /\ requests = <<>>
    /\ response = "none"
    /\ success = "none"
    /\ secrets_script = FALSE

\* ---------------------------------------- the state of optimize_with_azure.py
VARIABLES
    opc,              \* position in main
    oargc,            \* len(sys.argv)
    zip_file,         \* the file at zip_path
    extracted,        \* the files of the directory swift_extracted
    found_files,      \* swift_files of main, line 246
    prompt,           \* what create_optimization_prompt built
    api_key_set,      \* AZURE_OPENAI_API_KEY is in the environment
    api_requests,     \* requests sent to the API in this run
    optimization_result, \* line 256
    md_report,        \* optimization_results.md as this run wrote it
    json_report,      \* swift_analysis.json as this run wrote it
    optExit,          \* exit code of the process, -1 while it runs
    optRuns           \* earlier runs in the same working directory

optVars == <<opc, oargc, zip_file, extracted, found_files, prompt, api_key_set,
             api_requests, optimization_result, md_report, json_report,
             optExit, optRuns>>

NoZip == [exists |-> FALSE, valid |-> FALSE, files |-> {}]
NoPrompt == [built |-> FALSE]
NoReport == [written |-> FALSE]

\* optimize_with_azure.py does not run
OptIdle ==
    /\ opc = "idle"
    /\ oargc = 0
    /\ zip_file = NoZip
    /\ extracted = {}
    /\ found_files = <<>>
    /\ prompt = NoPrompt
    /\ api_key_set = FALSE
    /\ api_requests = 0
    /\ optimization_result = "none"
    /\ md_report = NoReport
    /\ json_report = NoReport
    /\ optExit = -1
    /\ optRuns = 0

\* the variables of the scripts other than the generator
otherVars == <<patchVars, connVars, optVars>>
\* the variables of the programs other than the patch scripts
exceptPatch == <<vars, connVars, optVars>>
\* the variables of the programs other than test_azure_connection.py
exceptConn == <<vars, patchVars, optVars>>
\* the variables of the programs other than optimize_with_azure.py
exceptOpt == <<vars, patchVars, connVars>>

\* ---------------------------------------------------------- generate_uuid
\* lines 6-7.  The tokens a call of generate_uuid can return: one never
\* issued, or (a collision) one of the n issued before, c collisions having
\* happened so far in the run
UuidChoicesAt(n, c) ==
    {n + 1} \cup (IF c < MaxCollisions THEN 1..n ELSE {})

\* bookkeeping of one call that returned t
IssuedAfter(n, t) == IF t > n THEN t ELSE n
CollisionsAfter(n, c, t) == IF t > n THEN c ELSE c + 1

Init ==
    /\ pc = "makedirs"
    /\ rootState \in RootStates
    /\ tree \in Trees
    /\ rootState # "ok" => tree = <<>>
    /\ walkIdx = 0
    /\ swift_files = <<>>
    /\ loopIdx = 0
    /\ issued = 0
    /\ collisions = 0
    /\ file_refs = <<>>
    /\ build_files = <<>>
    /\ sources_list = <<>>
    /\ named = <<>>
    /\ inline = <<>>
    /\ project_content = NoFile
    /\ projDir = FALSE
    /\ pbxproj = NoFile
    /\ PatchIdle
    /\ ConnIdle
    /\ OptIdle

\* line 13: os.makedirs(..., exist_ok=True)
MakeDirs ==
    /\ pc = "makedirs"
    /\ projDir' = TRUE
    /\ pc' = "walk"
    /\ UNCHANGED <<rootState, tree, walkIdx, swift_files, loopIdx, issued,
                   collisions, file_refs, build_files, sources_list, named,
                   inline, project_content, pbxproj>>
    /\ UNCHANGED otherVars

\* lines 17-21, one file of the walk.  os.walk swallows the error of a
\* missing or unreadable top directory and yields nothing (tree is empty).
WalkFile ==
    /\ pc = "walk"
    /\ walkIdx < Len(tree)
    /\ LET f == tree[walkIdx + 1]
       IN swift_files' = IF EndsWith(f.file, SwiftSuffix)
                         THEN Append(swift_files, RelPath(f.dir, f.file))
                         ELSE swift_files
    /\ walkIdx' = walkIdx + 1
    /\ UNCHANGED <<pc, rootState, tree, loopIdx, issued, collisions,
                   file_refs, build_files, sources_list, named, inline,
                   project_content, projDir, pbxproj>>
    /\ UNCHANGED otherVars

\* the walk is exhausted (line 23)
WalkDone ==
    /\ pc = "walk"
    /\ walkIdx = Len(tree)
    /\ pc' = "loop"
    /\ UNCHANGED <<rootState, tree, walkIdx, swift_files, loopIdx, issued,
                   collisions, file_refs, build_files, sources_list, named,
                   inline, project_content, projDir, pbxproj>>
    /\ UNCHANGED otherVars

\* ------------------------------------------------------------- records
\* One record of the objects mapping as the template writes it: the
\* identifier it is keyed by, its isa, its name and path fields (empty when
\* the record has none), its file type, and its identifier references in
\* text order.  Of the comments between /* */ only the phase a build file's
\* comment names ("in Sources", "in Resources") is kept.
Rec(id, isa, name, path, fileType, refs) ==
    [id |-> id, isa |-> isa, name |-> name, path |-> path,
     fileType |-> fileType, refs |-> refs, phase |-> ""]

Ref(field, target) == [field |-> field, target |-> target]

\* line 35: the text written after "path = " for a source file
FormatPath(file_name) == file_name

\* line 35: the PBXFileReference record of one source file
FileRefRecord(ref_uuid, file_name) ==
    Rec(ref_uuid, "PBXFileReference", "", FormatPath(file_name),
        "sourcecode.swift", <<>>)

\* a build file that names itself instead of its file reference
BuildFileRecord_SelfRef(build_uuid, ref_uuid) ==
    [Rec(build_uuid, "PBXBuildFile", "", <<>>, "",
         <<Ref("fileRef", build_uuid)>>) EXCEPT !.phase = "Sources"]

\* line 36: the PBXBuildFile record of one source file
BuildFileRecord(build_uuid, ref_uuid) ==
    [Rec(build_uuid, "PBXBuildFile", "", <<>>, "",
         <<Ref("fileRef", ref_uuid)>>) EXCEPT !.phase = "Sources"]

\* lines 30-37, one iteration
LoopBody ==
    /\ pc = "loop"
    /\ loopIdx < Len(swift_files)
    /\ LET file_path == swift_files[loopIdx + 1]
           file_name == Basename(file_path)
       IN \E ref_uuid \in UuidChoicesAt(issued, collisions) :
            LET issued1 == IssuedAfter(issued, ref_uuid)
                collisions1 == CollisionsAfter(issued, collisions, ref_uuid)
            IN \E build_uuid \in UuidChoicesAt(issued1, collisions1) :
                 /\ issued' = IssuedAfter(issued1, build_uuid)
                 /\ collisions' =
                        CollisionsAfter(issued1, collisions1, build_uuid)
                 /\ file_refs' =
                        Append(file_refs, FileRefRecord(ref_uuid, file_name))
                 /\ build_files' =
                        Append(build_files, BuildFileRecord(build_uuid, ref_uuid))
                 /\ sources_list' = Append(sources_list, build_uuid)
    /\ loopIdx' = loopIdx + 1
    /\ UNCHANGED <<pc, rootState, tree, walkIdx, swift_files, named, inline,
                   project_content, projDir, pbxproj>>
    /\ UNCHANGED otherVars

\* the loop of line 30 is exhausted
LoopDone ==
    /\ pc = "loop"
    /\ loopIdx = Len(swift_files)
    /\ pc' = "named"
    /\ UNCHANGED <<rootState, tree, walkIdx, swift_files, loopIdx, issued,
                   collisions, file_refs, build_files, sources_list, named,
                   inline, project_content, projDir, pbxproj>>
    /\ UNCHANGED otherVars

\* lines 40-46, one assignment
AssignUuid ==
    /\ pc = "named"
    /\ \E t \in UuidChoicesAt(issued, collisions) :
         /\ named' = Append(named, t)
         /\ issued' = IssuedAfter(issued, t)
         /\ collisions' = CollisionsAfter(issued, collisions, t)
    /\ pc' = IF Len(named) + 1 = NamedCount THEN "template" ELSE "named"
    /\ UNCHANGED <<rootState, tree, walkIdx, swift_files, loopIdx, file_refs,
                   build_files, sources_list, inline, project_content,
                   projDir, pbxproj>>
    /\ UNCHANGED otherVars

main_target_uuid     == named[1]
sources_phase_uuid   == named[2]
resources_phase_uuid == named[3]
group_uuid           == named[4]
assets_ref_uuid      == named[5]
assets_build_uuid    == named[6]
app_ref_uuid         == named[7]

\* one {generate_uuid()} of the template, lines 68-356: the f-string of
\* line 48 evaluates them in text order before it joins the text
InlineUuid ==
    /\ pc = "template"
    /\ \E t \in UuidChoicesAt(issued, collisions) :
         /\ inline' = Append(inline, t)
         /\ issued' = IssuedAfter(issued, t)
         /\ collisions' = CollisionsAfter(issued, collisions, t)
    /\ pc' = IF Len(inline) + 1 = InlineCount THEN "render" ELSE "template"
    /\ UNCHANGED <<rootState, tree, walkIdx, swift_files, loopIdx, file_refs,
                   build_files, sources_list, named, project_content,
                   projDir, pbxproj>>
    /\ UNCHANGED otherVars

Chars_Assets == <<"A", "s", "s", "e", "t", "s", ".",
                  "x", "c", "a", "s", "s", "e", "t", "s">>
Chars_Project == <<"N", "o", "v", "a", "M", "i", "n", "d">>
Chars_App == Chars_Project \o <<".", "a", "p", "p">>

\* lines 56-59
BuildFileSection ==
    build_files \o
    <<[Rec(assets_build_uuid, "PBXBuildFile", "", <<>>, "",
           <<Ref("fileRef", assets_ref_uuid)>>) EXCEPT !.phase = "Resources"]>>

\* lines 61-65
FileReferenceSection ==
    file_refs \o
    <<Rec(assets_ref_uuid, "PBXFileReference", "", Chars_Assets,
          "folder.assetcatalog", <<>>),
      Rec(app_ref_uuid, "PBXFileReference", "", Chars_App,
          "wrapper.application", <<>>)>>

\* lines 67-92
GroupSection ==
    <<Rec(inline[1], "PBXGroup", "", <<>>, "",
          <<Ref("children", group_uuid), Ref("children", inline[2])>>),
      Rec(group_uuid, "PBXGroup", "", Chars_Project, "",
          <<Ref("children", assets_ref_uuid)>>),
      Rec(inline[3], "PBXGroup", "Products", <<>>, "",
          <<Ref("children", app_ref_uuid)>>)>>

\* lines 94-111
NativeTargetSection ==
    <<Rec(main_target_uuid, "PBXNativeTarget", project_name, <<>>, "",
          <<Ref("buildConfigurationList", inline[4]),
            Ref("buildPhases", sources_phase_uuid),
            Ref("buildPhases", resources_phase_uuid),
            Ref("productReference", app_ref_uuid)>>)>>

\* lines 113-142
ProjectSection ==
    <<Rec(inline[5], "PBXProject", "", <<>>, "",
          <<Ref("TargetAttributes", main_target_uuid),
            Ref("buildConfigurationList", inline[6]),
            Ref("mainGroup", inline[7]),
            Ref("productRefGroup", inline[8]),
            Ref("targets", main_target_uuid)>>)>>

\* a resources phase that forgets the asset catalog
ResourcesBuildPhaseSection_NoFiles ==
    <<Rec(resources_phase_uuid, "PBXResourcesBuildPhase", "", <<>>, "", <<>>)>>

\* lines 144-153
ResourcesBuildPhaseSection ==
    <<Rec(resources_phase_uuid, "PBXResourcesBuildPhase", "", <<>>, "",
          <<Ref("files", assets_build_uuid)>>)>>

\* a files list in reverse discovery order
SourcesPhaseFiles_Reversed(list) ==
    [k \in 1..Len(list) |-> Ref("files", list[Len(list) + 1 - k])]

\* line 160: the files list of the sources phase
SourcesPhaseFiles(list) == [k \in 1..Len(list) |-> Ref("files", list[k])]

\* lines 155-164
SourcesBuildPhaseSection ==
    <<Rec(sources_phase_uuid, "PBXSourcesBuildPhase", "", <<>>, "",
          SourcesPhaseFiles(sources_list))>>

\* lines 166-333
BuildConfigurationSection ==
    <<Rec(inline[9],  "XCBuildConfiguration", "Debug",   <<>>, "", <<>>),
      Rec(inline[10], "XCBuildConfiguration", "Release", <<>>, "", <<>>),
      Rec(inline[11], "XCBuildConfiguration", "Debug",   <<>>, "", <<>>),
      Rec(inline[12], "XCBuildConfiguration", "Release", <<>>, "", <<>>)>>

\* lines 335-354
ConfigurationListSection ==
    <<Rec(inline[13], "XCConfigurationList", "", <<>>, "",
          <<Ref("buildConfigurations", inline[14]),
            Ref("buildConfigurations", inline[15])>>),
      Rec(inline[16], "XCConfigurationList", "", <<>>, "",
          <<Ref("buildConfigurations", inline[17]),
            Ref("buildConfigurations", inline[18])>>)>>

\* lines 48-358: the descriptor text, as the records of its objects
\* mapping in text order and its rootObject
ProjectContent ==
    [written |-> TRUE,
     objects |-> BuildFileSection \o FileReferenceSection \o GroupSection
                 \o NativeTargetSection \o ProjectSection
                 \o ResourcesBuildPhaseSection \o SourcesBuildPhaseSection
                 \o BuildConfigurationSection \o ConfigurationListSection,
     rootObject |-> inline[19]]

\* line 48: project_content = f"""...""", the text joined
RenderContent ==
    /\ pc = "render"
    /\ project_content' = ProjectContent
    /\ pc' = "write"
    /\ UNCHANGED <<rootState, tree, walkIdx, swift_files, loopIdx, issued,
                   collisions, file_refs, build_files, sources_list, named,
                   inline, projDir, pbxproj>>
    /\ UNCHANGED otherVars

\* lines 361-362: the file is written whole; nothing in the function
\* inspects project_content before
WriteFile ==
    /\ pc = "write"
    /\ pbxproj' = project_content
    /\ pc' = "done"
    /\ UNCHANGED <<rootState, tree, walkIdx, swift_files, loopIdx, issued,
                   collisions, file_refs, build_files, sources_list, named,
                   inline, project_content, projDir>>
    /\ UNCHANGED otherVars

Next ==
    \/ MakeDirs
    \/ WalkFile
    \/ WalkDone
    \/ LoopBody
    \/ LoopDone
    \/ AssignUuid
    \/ InlineUuid
    \/ RenderContent
    \/ WriteFile

Spec == Init /\ [][Next]_vars

\* ==================================================== properties checked
\* the descriptor on disk, once written
Written == pbxproj.written
Objects == pbxproj.objects
N == Len(swift_files)

Ids(c) == {c.objects[i].id : i \in 1..Len(c.objects)}

RefTargets(c) ==
    UNION {{c.objects[i].refs[k].target : k \in 1..Len(c.objects[i].refs)} :
              i \in 1..Len(c.objects)}
    \cup {c.rootObject}

Dangling(c) == RefTargets(c) \ Ids(c)

IsSourceRef(r) == r.isa = "PBXFileReference" /\ r.fileType = "sourcecode.swift"
IsSourceBuild(r) == r.isa = "PBXBuildFile" /\ r.phase = "Sources"

SourceRefs == SelectSeq(Objects, IsSourceRef)
SourceBuilds == SelectSeq(Objects, IsSourceBuild)

OfIsa(isa) == SelectSeq(Objects, LAMBDA r : r.isa = isa)
Named(isa, name) == SelectSeq(Objects, LAMBDA r : r.isa = isa /\ r.name = name)

\* C1: every identifier a record of the written descriptor references
\* (fileRef, children, mainGroup, productRefGroup, buildConfigurationList,
\* buildConfigurations, buildPhases, files, targets, productReference,
\* rootObject) is the key of a record of its objects mapping.
C1_NoDanglingReference == Written => Dangling(pbxproj) = {}

\* C2: the written descriptor holds exactly N source-file PBXFileReference
\* records and exactly N source PBXBuildFile records, N the number of
\* discovered paths, and the i-th build file's fileRef is the identifier of
\* the i-th file reference, which the output defines.
C2_PairsLinked ==
    Written =>
        /\ Len(SourceRefs) = N
        /\ Len(SourceBuilds) = N
        /\ \A i \in 1..N :
              /\ SourceBuilds[i].refs = <<Ref("fileRef", SourceRefs[i].id)>>
              /\ SourceRefs[i].id \in Ids(pbxproj)

C2_Witness == Written /\ N = 2 /\ SourceRefs[1].id # SourceRefs[2].id

\* C3: the files list of the PBXSourcesBuildPhase is the sequence of the
\* build-file identifiers of the discovered paths in discovery order: its
\* k-th entry is the build file whose file reference was made for the k-th
\* discovered path; nothing is added, dropped or reordered.
C3_SourcesPhaseOrder ==
    Written =>
        /\ Len(OfIsa("PBXSourcesBuildPhase")) = 1
        /\ LET files == OfIsa("PBXSourcesBuildPhase")[1].refs
           IN /\ Len(files) = N
              /\ \A k \in 1..N :
                    /\ files[k] = Ref("files", SourceBuilds[k].id)
                    /\ files[k].target = sources_list[k]
                    /\ SourceBuilds[k].refs[1].target = SourceRefs[k].id
                    /\ SourceRefs[k].path = Basename(swift_files[k])

C3_Witness ==
    /\ Written
    /\ N = 2
    /\ SourceBuilds[1].id # SourceBuilds[2].id
    /\ SourceRefs[1].path # SourceRefs[2].path

\* C4: no two records of the objects mapping of a written descriptor share
\* an identifier, whatever tokens generate_uuid returned.
C4_UniqueIdentifiers ==
    Written =>
        \A i, j \in 1..Len(Objects) : i # j => Objects[i].id # Objects[j].id

\* C5: a run whose rendered descriptor references an identifier that no
\* record defines ends without project.pbxproj being written.
C5_NoWriteWhenDangling ==
    (pc = "done" /\ Dangling(project_content) # {}) => ~Written

\* C6: when the source root is missing or unreadable the run creates no
\* project directory and writes no descriptor.
C6_MissingRootAborts == rootState # "ok" => (~projDir /\ ~Written)

IsPhase(r) == r.isa \in {"PBXSourcesBuildPhase", "PBXResourcesBuildPhase"}

\* the fixed entities of the descriptor are all there
Complete ==
    /\ Len(OfIsa("PBXGroup")) = 3
    /\ Len(OfIsa("PBXNativeTarget")) = 1
    /\ Len(OfIsa("PBXProject")) = 1
    /\ Len(OfIsa("PBXSourcesBuildPhase")) = 1
    /\ Len(OfIsa("PBXResourcesBuildPhase")) = 1
    /\ Len(OfIsa("XCBuildConfiguration")) = 4
    /\ Len(OfIsa("XCConfigurationList")) = 2

\* C7 as claimed: with no discovered file the complete descriptor is
\* written and the entry list of every build phase is empty.
C7_AllPhasesEmpty ==
    (Written /\ N = 0) =>
        /\ Complete
        /\ \A i \in 1..Len(Objects) :
              IsPhase(Objects[i]) => Objects[i].refs = <<>>

\* C7 as amended: with no discovered file the complete descriptor is
\* written, the entry list of the sources build phase is empty, and the
\* resources build phase lists exactly the build file of Assets.xcassets.
C7_SourcesPhaseEmpty ==
    (Written /\ N = 0) =>
        /\ Complete
        /\ OfIsa("PBXSourcesBuildPhase")[1].refs = <<>>
        /\ SourceRefs = <<>>
        /\ SourceBuilds = <<>>
        /\ LET files == OfIsa("PBXResourcesBuildPhase")[1].refs
           IN /\ Len(files) = 1
              /\ files[1].field = "files"
              /\ \E i \in 1..Len(Objects) :
                    /\ Objects[i].id = files[1].target
                    /\ Objects[i].isa = "PBXBuildFile"
                    /\ Objects[i].phase = "Resources"

C7_Witness == Written /\ N = 0 /\ Len(tree) > 0

\* the record without the identifier it is keyed by
Content(r) == [r EXCEPT !.id = 0]

\* C8: two discovered paths with one basename in different directories give
\* two file references and two build files with pairwise distinct
\* identifiers, and the two file references differ in content, so that the
\* relative path of each can be told from its record.
C8_SameBasenameKeptApart ==
    Written =>
        \A i, j \in 1..N :
            (i # j /\ Basename(swift_files[i]) = Basename(swift_files[j])) =>
                /\ Cardinality({SourceRefs[i].id, SourceRefs[j].id,
                                SourceBuilds[i].id, SourceBuilds[j].id}) = 4
                /\ Content(SourceRefs[i]) # Content(SourceRefs[j])

\* the bare-token alphabet of the descriptor format
BareChars ==
    {"a", "b", "c", "d", "e", "f", "g", "h", "i", "j", "k", "l", "m",
     "n", "o", "p", "q", "r", "s", "t", "u", "v", "w", "x", "y", "z",
     "A", "B", "C", "D", "E", "F", "G", "H", "I", "J", "K", "L", "M",
     "N", "O", "P", "Q", "R", "S", "T", "U", "V", "W", "X", "Y", "Z",
     "0", "1", "2", "3", "4", "5", "6", "7", "8", "9",
     "_", ".", "/", "$"}

IsBare(text) == \A i \in 1..Len(text) : text[i] \in BareChars

IsQuoted(text) ==
    Len(text) >= 2 /\ text[1] = "\"" /\ text[Len(text)] = "\""

\* C9: a path the serializer writes that holds a character outside the
\* bare-token alphabet is written wrapped in quotes; so is the path of each
\* file reference whose basename holds such a character.
C9_NonBareQuoted ==
    Written =>
        /\ \A i \in 1..Len(Objects) :
              IsBare(Objects[i].path) \/ IsQuoted(Objects[i].path)
        /\ \A i \in 1..N :
              ~IsBare(Basename(swift_files[i])) => IsQuoted(SourceRefs[i].path)

\* b is what follows the last separator of p
IsBasenameOf(b, p) ==
    /\ \A i \in 1..Len(b) : b[i] # Sep
    /\ Len(b) <= Len(p)
    /\ SubSeq(p, Len(p) - Len(b) + 1, Len(p)) = b
    /\ Len(b) < Len(p) => p[Len(p) - Len(b)] = Sep

TargetAndPaths ==
    /\ Len(OfIsa("PBXNativeTarget")) = 1
    /\ OfIsa("PBXNativeTarget")[1].name = project_name
    /\ Len(SourceRefs) = N
    /\ \A i \in 1..N : IsBasenameOf(SourceRefs[i].path, swift_files[i])

\* C10 as claimed: one native target named with the project name, exactly
\* two XCBuildConfiguration records, one Debug and one Release, and each
\* source file reference's path is the basename of its discovered path.
C10_TwoConfigurations ==
    Written =>
        /\ TargetAndPaths
        /\ Len(OfIsa("XCBuildConfiguration")) = 2
        /\ Len(Named("XCBuildConfiguration", "Debug")) = 1
        /\ Len(Named("XCBuildConfiguration", "Release")) = 1

\* C10 as amended: one native target named with the project name, exactly
\* four XCBuildConfiguration records, two named Debug and two named Release
\* (a pair for the project and a pair for the target), and each source file
\* reference's path is the basename of its discovered path.
C10_FourConfigurations ==
    Written =>
        /\ TargetAndPaths
        /\ Len(OfIsa("XCBuildConfiguration")) = 4
        /\ Len(Named("XCBuildConfiguration", "Debug")) = 2
        /\ Len(Named("XCBuildConfiguration", "Release")) = 2

C10_Witness ==
    /\ Written
    /\ \E i \in 1..N : LastSep(swift_files[i]) > 0

\* =========================================================================
\* Part 2: the patch scripts fix_project_paths.py, fix_project_paths_v2.py
\* and fix_project_paths_v4.py
\* =========================================================================
\* A descriptor is a graph of objects keyed by identifier.  Every object has
\* the same fields; refs holds the identifiers the object refers to (the
\* fileRef of a build file, the children of a group, the files of a phase).

\* most file references of the descriptor given to a script
MaxRefs == 2
\* most runs of a script on the same descriptor, one after the other
MaxRuns == 2

Obj(isa, name, path, refs) ==
    [isa |-> isa, name |-> name, path |-> path, refs |-> refs]

\* identifiers of file references; the first two are the ones
\* fix_project_paths_v4.py names
FileIdPool ==
    {"67069FBC2E34E7EC00B79643", "6706A0192E34E82200B79643",
     "AA0000000000000000000001"}

\* the build file that compiles a file reference
BuildIdOf(fid) ==
    CASE fid = "67069FBC2E34E7EC00B79643" -> "BF069FBC2E34E7EC00B79643"
      [] fid = "6706A0192E34E82200B79643" -> "BF06A0192E34E82200B79643"
      [] OTHER -> "BF0000000000000000000001"

GroupId == "GR0000000000000000000001"
PhaseId == "PH0000000000000000000001"

\* name and path of a file reference of the descriptor
FileKinds ==
    { [name |-> "KrilleCore2030Modifier.swift",
       path |-> "Views/DesignSystem/KrilleCore2030Modifier.swift"],
      [name |-> "MessageRow.swift",
       path |-> "MessageRow.swift"],
      [name |-> "WebSocketManager.swift",
       path |-> "Realtime/Resources/Sources/Core/WebSocketManager.swift"],
      [name |-> "WebSocketManager.swift",
       path |-> "Resources/Sources/Core/WebSocketManager.swift"],
      [name |-> "MessageRowOptimized.swift",
       path |-> "MessageRowOptimized.swift"],
      [name |-> "MessageRowOptimized.swift",
       path |-> "Views/Components/MessageRowOptimized.swift"],
      [name |-> "IconButtonLegacy.swift",
       path |-> "Views/Chat/IconButton.swift"],
      [name |-> "ChatView.swift",
       path |-> "Views/Chat/ChatView.swift"] }

\* the descriptor with the file references files (identifier -> kind), all
\* of them children of the one group; with built, each has a build file in
\* the one build phase
GraphOf(files, built) ==
    LET fids == DOMAIN files
        bids == IF built THEN {BuildIdOf(f) : f \in fids} ELSE {}
        owner(b) == CHOOSE f \in fids : BuildIdOf(f) = b
    IN [i \in fids \cup bids \cup {GroupId, PhaseId} |->
          IF i \in fids
          THEN Obj("PBXFileReference", files[i].name, files[i].path, {})
          ELSE IF i \in bids
          THEN Obj("PBXBuildFile", "", "", {owner(i)})
          ELSE IF i = GroupId
          THEN Obj("PBXGroup", "NovaMind", "", fids)
          ELSE Obj("PBXSourcesBuildPhase", "", "", bids)]

\* the descriptors a script is run on: every reference they hold resolves
Graphs ==
    {GraphOf(files, built) :
        files \in UNION {[S -> FileKinds] :
                           S \in {T \in SUBSET FileIdPool :
                                    Cardinality(T) <= MaxRefs}},
        built \in BOOLEAN}

OnDisk(g) == [valid |-> TRUE, objects |-> g]

\* ------------------------------------------------ the pbxproj library
\* XcodeProject.get_files_by_name: the file references called name
get_files_by_name(g, name) ==
    {i \in DOMAIN g : g[i].isa = "PBXFileReference" /\ g[i].name = name}

\* XcodeProject.get_files_by_path: the file references at path
get_files_by_path(g, path) ==
    {i \in DOMAIN g : g[i].isa = "PBXFileReference" /\ g[i].path = path}

\* XcodeProject.get_object: whether an object has the identifier
has_object(g, id) == id \in DOMAIN g

\* XcodeProject.remove_file_by_id for every identifier of ids: the file
\* references go, with the build files that compile them, and the remaining
\* objects no longer list what went
remove_files_by_id(g, ids) ==
    LET gone  == ids \cap DOMAIN g
        bgone == {b \in DOMAIN g : g[b].isa = "PBXBuildFile"
                                   /\ g[b].refs \cap gone # {}}
        del   == gone \cup bgone
    IN [i \in DOMAIN g \ del |-> [g[i] EXCEPT !.refs = @ \ del]]

\* file_ref.path = new_path for every identifier of ids
set_path(g, ids, new_path) ==
    [i \in DOMAIN g |-> IF i \in ids THEN [g[i] EXCEPT !.path = new_path]
                                     ELSE g[i]]

\* ------------------------------------------------ fix_project_paths.py
\* lines 14-17, in the order the dict yields its items
files_to_update ==
    << [name |-> "MessageRowOptimized.swift",
        path |-> "MessageRowOptimized.swift"],
       [name |-> "WebSocketManager.swift",
        path |-> "Resources/Sources/Core/WebSocketManager.swift"] >>

\* lines 19-36 (the last entry is spelt with an a-umlaut in the source)
files_to_remove_names ==
    << "KrilleCore2030Modifier.swift",
       "IconButton.swift",
       "KrilleCore2030Extensions.swift",
       "KrilleStyle.swift",
       "ProjectAction.swift",
       "BrandIcon.swift",
       "MessageRow.swift",
       "ChatBubble.swift",
       "ProjectContextBar.swift",
       "AISaveGlowModifier.swift",
       "ActionButton.swift",
       "MessageRowAttachments.swift",
       "ModelPicker.swift",
       "KrilleStyleDemoView.swift",
       "a) **Uppgradera till en nyare modell** s",
       "- Temporart: Ta bort alla tool-related i" >>

\* lines 41-46: the three names whose references are gathered first
gathered_names ==
    << "KrilleCore2030Modifier.swift",
       "IconButton.swift",
       "KrilleCore2030Extensions.swift" >>

\* ---------------------------------------------- fix_project_paths_v2.py
\* lines 16-19
path_map ==
    << [incorrect |-> "Views/Components/MessageRowOptimized.swift",
        correct   |-> "MessageRowOptimized.swift"],
       [incorrect |-> "Realtime/Resources/Sources/Core/WebSocketManager.swift",
        correct   |-> "Resources/Sources/Core/WebSocketManager.swift"] >>

\* lines 32-36
paths_to_remove ==
    << "Views/DesignSystem/KrilleCore2030Modifier.swift",
       "Views/Chat/IconButton.swift",
       "Views/DesignSystem/KrilleCore2030Extensions.swift" >>

\* lines 48-52
names_to_remove ==
    << "KrilleCore2030Modifier.swift",
       "IconButton.swift",
       "KrilleCore2030Extensions.swift" >>

\* ---------------------------------------------- fix_project_paths_v4.py
\* lines 16-27: identifier, the path expected there, the path written
id_fixes ==
    << [id  |-> "67069FBC2E34E7EC00B79643",
        old |-> "MessageRowOptimized.swift",
        new |-> "../../MessageRowOptimized.swift"],
       [id  |-> "6706A0192E34E82200B79643",
        old |-> "Resources/Sources/Core/WebSocketManager.swift",
        new |-> "../Resources/Sources/Core/WebSocketManager.swift"] >>

Scripts == {"v1", "v2", "v4"}

\* ------------------------------------------------------------ one run
\* positions of main inside the try block: each holds library calls
InTry ==
    {"load", "gather", "remove_gathered", "update", "remove_names",
     "correct", "remove_paths", "remove_names_v2", "fix_ids", "save"}

\* the position after the list at position pos is exhausted
AfterList(pos) ==
    CASE pos = "gather"          -> "remove_gathered"
      [] pos = "update"          -> "remove_names"
      [] pos = "remove_names"    -> "save"
      [] pos = "correct"         -> "remove_paths"
      [] pos = "remove_paths"    -> "remove_names_v2"
      [] pos = "remove_names_v2" -> "save"
      [] pos = "fix_ids"         -> "save"

\* one more entry of a list of n entries is handled
Advance(pos, n) ==
    IF pidx + 1 = n
    THEN ppc' = AfterList(pos) /\ pidx' = 0
    ELSE ppc' = pos /\ pidx' = pidx + 1

InitPatchRun ==
    /\ script \in Scripts
    /\ argc \in {1, 2, 3}
    /\ ppc = "start"
    /\ pidx = 0
    /\ disk \in {OnDisk(g) : g \in Graphs} \cup {NoGraph}
    /\ project = NoGraph
    /\ files_to_remove_refs = {}
    /\ exitCode = -1
    /\ raised = FALSE
    /\ saves = 0
    /\ loaded = disk
    /\ runs = <<>>

\* a start that goes on to load whatever the argument count
PatchStart_NoCheck ==
    /\ ppc = "start"
    /\ ppc' = "load"
    /\ UNCHANGED <<script, argc, pidx, disk, project, files_to_remove_refs,
                   exitCode, raised, saves, loaded, runs>>
    /\ UNCHANGED exceptPatch

\* lines 5-9 of each script: the argument check, outside the try block
PatchStart ==
    /\ ppc = "start"
    /\ IF argc # 2
       THEN ppc' = "exited" /\ exitCode' = 1
       ELSE ppc' = "load" /\ exitCode' = exitCode
    /\ UNCHANGED <<script, argc, pidx, disk, project, files_to_remove_refs,
                   raised, saves, loaded, runs>>
    /\ UNCHANGED exceptPatch

\* line 12: XcodeProject.load(project_path) returns the graph of the file
PatchLoad ==
    /\ ppc = "load"
    /\ disk.valid
    /\ project' = disk
    /\ ppc' = CASE script = "v1" -> "gather"
                [] script = "v2" -> "correct"
                [] script = "v4" -> "fix_ids"
    /\ UNCHANGED <<script, argc, pidx, disk, files_to_remove_refs, exitCode,
                   raised, saves, loaded, runs>>
    /\ UNCHANGED exceptPatch

\* fix_project_paths.py lines 40-46: one of the three lookups
Fix1_Gather ==
    /\ ppc = "gather"
    /\ files_to_remove_refs' = files_to_remove_refs \cup
           get_files_by_name(project.objects, gathered_names[pidx + 1])
    /\ Advance("gather", Len(gathered_names))
    /\ UNCHANGED <<script, argc, disk, project, exitCode, raised, saves, loaded,
                   runs>>
    /\ UNCHANGED exceptPatch

\* fix_project_paths.py lines 49-51
Fix1_RemoveGathered ==
    /\ ppc = "remove_gathered"
    /\ project' = [project EXCEPT !.objects =
                       remove_files_by_id(@, files_to_remove_refs)]
    /\ ppc' = "update"
    /\ UNCHANGED <<script, argc, pidx, disk, files_to_remove_refs, exitCode,
                   raised, saves, loaded, runs>>
    /\ UNCHANGED exceptPatch

\* an update that rewrites every file reference, whatever its name
UpdatePath_All(g, entry) ==
    set_path(g, {i \in DOMAIN g : g[i].isa = "PBXFileReference"}, entry.path)

\* fix_project_paths.py lines 56-59: one item of files_to_update
UpdatePath(g, entry) ==
    set_path(g, get_files_by_name(g, entry.name), entry.path)

\* fix_project_paths.py lines 55-59
Fix1_Update ==
    /\ ppc = "update"
    /\ project' = [project EXCEPT !.objects =
                       UpdatePath(@, files_to_update[pidx + 1])]
    /\ Advance("update", Len(files_to_update))
    /\ UNCHANGED <<script, argc, disk, files_to_remove_refs, exitCode, raised,
                   saves, loaded, runs>>
    /\ UNCHANGED exceptPatch

\* a removal by name that spares one of several references sharing the name
RemoveByName_First(g, name) ==
    LET found == get_files_by_name(g, name)
    IN IF found = {} THEN g
       ELSE remove_files_by_id(g, {CHOOSE i \in found : TRUE})

\* fix_project_paths.py lines 64-69, fix_project_paths_v2.py lines 54-58:
\* look the name up and remove every reference found
RemoveByName(g, name) ==
    remove_files_by_id(g, get_files_by_name(g, name))

\* fix_project_paths.py lines 62-69
Fix1_RemoveByName ==
    /\ ppc = "remove_names"
    /\ project' = [project EXCEPT !.objects =
                       RemoveByName(@, files_to_remove_names[pidx + 1])]
    /\ Advance("remove_names", Len(files_to_remove_names))
    /\ UNCHANGED <<script, argc, disk, files_to_remove_refs, exitCode, raised,
                   saves, loaded, runs>>
    /\ UNCHANGED exceptPatch

\* fix_project_paths_v2.py lines 21-29: one item of path_map
Fix2_Correct ==
    /\ ppc = "correct"
    /\ LET entry == path_map[pidx + 1]
       IN project' = [project EXCEPT !.objects =
              set_path(@, get_files_by_path(@, entry.incorrect),
                       entry.correct)]
    /\ Advance("correct", Len(path_map))
    /\ UNCHANGED <<script, argc, disk, files_to_remove_refs, exitCode, raised,
                   saves, loaded, runs>>
    /\ UNCHANGED exceptPatch

\* fix_project_paths_v2.py lines 38-45: one entry of paths_to_remove
Fix2_RemoveByPath ==
    /\ ppc = "remove_paths"
    /\ project' = [project EXCEPT !.objects =
           remove_files_by_id(@,
               get_files_by_path(@, paths_to_remove[pidx + 1]))]
    /\ Advance("remove_paths", Len(paths_to_remove))
    /\ UNCHANGED <<script, argc, disk, files_to_remove_refs, exitCode, raised,
                   saves, loaded, runs>>
    /\ UNCHANGED exceptPatch

\* fix_project_paths_v2.py lines 53-58: one entry of names_to_remove
Fix2_RemoveByName ==
    /\ ppc = "remove_names_v2"
    /\ project' = [project EXCEPT !.objects =
                       RemoveByName(@, names_to_remove[pidx + 1])]
    /\ Advance("remove_names_v2", Len(names_to_remove))
    /\ UNCHANGED <<script, argc, disk, files_to_remove_refs, exitCode, raised,
                   saves, loaded, runs>>
    /\ UNCHANGED exceptPatch

\* a fix that does not look at the path it replaces
FixId_Unguarded(g, fix) ==
    IF has_object(g, fix.id) THEN set_path(g, {fix.id}, fix.new) ELSE g

\* fix_project_paths_v4.py lines 17-20 and 24-27: the object with the
\* identifier gets the new path if it exists and has the expected path
FixId(g, fix) ==
    IF has_object(g, fix.id) /\ g[fix.id].path = fix.old
    THEN set_path(g, {fix.id}, fix.new)
    ELSE g

\* a fix that writes the file at once, before project.save()
Fix4_FixId_WriteThrough ==
    /\ ppc = "fix_ids"
    /\ project' = [project EXCEPT !.objects = FixId(@, id_fixes[pidx + 1])]
    /\ disk' = project'
    /\ Advance("fix_ids", Len(id_fixes))
    /\ UNCHANGED <<script, argc, files_to_remove_refs, exitCode, raised,
                   saves, loaded, runs>>
    /\ UNCHANGED exceptPatch

\* fix_project_paths_v4.py lines 15-27: one of the two fixes
Fix4_FixId ==
    /\ ppc = "fix_ids"
    /\ project' = [project EXCEPT !.objects = FixId(@, id_fixes[pidx + 1])]
    /\ Advance("fix_ids", Len(id_fixes))
    /\ UNCHANGED <<script, argc, disk, files_to_remove_refs, exitCode, raised,
                   saves, loaded, runs>>
    /\ UNCHANGED exceptPatch

\* project.save() and the end of main (fix_project_paths.py lines 71-72,
\* v2 lines 61-62, v4 lines 29-30): the file takes the graph in memory and
\* the process ends with no exit code set, that is 0
PatchSave ==
    /\ ppc = "save"
    /\ disk' = project
    /\ saves' = saves + 1
    /\ ppc' = "exited"
    /\ exitCode' = 0
    /\ UNCHANGED <<script, argc, pidx, project, files_to_remove_refs, raised,
                   loaded, runs>>
    /\ UNCHANGED exceptPatch

\* except Exception (fix_project_paths.py lines 74-76, v2 lines 64-66, v4
\* lines 32-34): a call of the try block raises, at any position.  A save
\* that raises has been called, and leaves the file whole or unparsable.
PatchRaise ==
    /\ ppc \in InTry
    /\ raised' = TRUE
    /\ ppc' = "exited"
    /\ exitCode' = 1
    /\ IF ppc = "save"
       THEN saves' = saves + 1 /\ disk' \in {disk, NoGraph}
       ELSE saves' = saves /\ disk' = disk
    /\ UNCHANGED <<script, argc, pidx, project, files_to_remove_refs, loaded,
                   runs>>
    /\ UNCHANGED exceptPatch

\* the script is run again on the descriptor a successful run left
PatchRerun ==
    /\ ppc = "exited"
    /\ exitCode = 0
    /\ Len(runs) + 1 < MaxRuns
    /\ runs' = Append(runs, disk)
    /\ loaded' = disk
    /\ ppc' = "start"
    /\ pidx' = 0
    /\ project' = NoGraph
    /\ files_to_remove_refs' = {}
    /\ exitCode' = -1
    /\ raised' = FALSE
    /\ saves' = 0
    /\ UNCHANGED <<script, argc, disk>>
    /\ UNCHANGED exceptPatch

\* the generator at rest
GeneratorIdle ==
    /\ pc = "idle"
    /\ rootState = "ok"
    /\ tree = <<>>
    /\ walkIdx = 0
    /\ swift_files = <<>>
    /\ loopIdx = 0
    /\ issued = 0
    /\ collisions = 0
    /\ file_refs = <<>>
    /\ build_files = <<>>
    /\ sources_list = <<>>
    /\ named = <<>>
    /\ inline = <<>>
    /\ project_content = NoFile
    /\ projDir = FALSE
    /\ pbxproj = NoFile

InitPatch ==
    /\ InitPatchRun
    /\ GeneratorIdle
    /\ ConnIdle
    /\ OptIdle

NextPatch ==
    \/ PatchStart
    \/ PatchLoad
    \/ Fix1_Gather
    \/ Fix1_RemoveGathered
    \/ Fix1_Update
    \/ Fix1_RemoveByName
    \/ Fix2_Correct
    \/ Fix2_RemoveByPath
    \/ Fix2_RemoveByName
    \/ Fix4_FixId
    \/ PatchSave
    \/ PatchRaise
    \/ PatchRerun

allVars == <<vars, otherVars>>

SpecPatch == InitPatch /\ [][NextPatch]_allVars

\* ------------------------------------------- properties of the patch scripts
PatchExited == ppc = "exited"
PatchSucceeded == ppc = "exited" /\ exitCode = 0

\* C11: a patch script ends with exit code 1 when its argument count is not
\* 2, and then it has loaded nothing, and when a call of the try block
\* raised; it ends with exit code 0 exactly when neither happened, and then
\* the descriptor was loaded and saved.
C11_ExitCodes ==
    PatchExited =>
        /\ exitCode = (IF argc # 2 \/ raised THEN 1 ELSE 0)
        /\ argc # 2 => (project = NoGraph /\ saves = 0 /\ ~raised)
        /\ exitCode = 0 => (project.valid /\ saves = 1 /\ disk = project)

\* a run that mutated the graph in memory and then met an exception
C11_Witness ==
    /\ PatchExited
    /\ raised
    /\ exitCode = 1
    /\ project.valid
    /\ project # loaded

\* C12: save is called at most once, and only as the last step of the run;
\* as long as it has not been called the descriptor file is as it was
\* loaded, so a run that raises before save leaves the file untouched.
C12_SaveLastOrNever ==
    /\ saves <= 1
    /\ saves = 1 => PatchExited
    /\ saves = 0 => disk = loaded

\* a run that raised after a removal or rewrite in memory, with no save
C12_Witness ==
    /\ PatchExited
    /\ raised
    /\ saves = 0
    /\ project.valid
    /\ project # loaded
    /\ disk = loaded

Range(f) == {f[i] : i \in DOMAIN f}

\* the objects of g one of the script's lookups finds: by name, by path or
\* by identifier
Matched(sc, g) ==
    CASE sc = "v1" ->
           {i \in DOMAIN g : /\ g[i].isa = "PBXFileReference"
                             /\ g[i].name \in Range(gathered_names)
                                  \cup {e.name : e \in Range(files_to_update)}
                                  \cup Range(files_to_remove_names)}
      [] sc = "v2" ->
           {i \in DOMAIN g : /\ g[i].isa = "PBXFileReference"
                             /\ \/ g[i].path \in
                                     {e.incorrect : e \in Range(path_map)}
                                       \cup Range(paths_to_remove)
                                \/ g[i].name \in Range(names_to_remove)}
      [] sc = "v4" ->
           {i \in DOMAIN g : i \in {e.id : e \in Range(id_fixes)}}

\* the references of g that resolve to no object of g
DanglingIn(g) ==
    {r \in UNION {g[i].refs : i \in DOMAIN g} : r \notin DOMAIN g}

FileRefsOf(g) == {i \in DOMAIN g : g[i].isa = "PBXFileReference"}

\* C16: after a successful run of fix_project_paths no file reference of
\* the saved graph has a name of files_to_remove_names, and every file
\* reference that was named WebSocketManager.swift is there with the path
\* Resources/Sources/Core/WebSocketManager.swift; while the script runs,
\* the removal by name finds nothing for the three names gathered and
\* removed before; after a successful run of fix_project_paths_v2 no file
\* reference has a path of paths_to_remove or a name of names_to_remove.
C16_RemovedAndRepathed ==
    /\ (PatchSucceeded /\ script = "v1") =>
          /\ \A i \in FileRefsOf(disk.objects) :
                disk.objects[i].name \notin Range(files_to_remove_names)
          /\ \A i \in FileRefsOf(loaded.objects) :
                loaded.objects[i].name = "WebSocketManager.swift" =>
                    /\ i \in DOMAIN disk.objects
                    /\ disk.objects[i].path =
                           "Resources/Sources/Core/WebSocketManager.swift"
    /\ (script = "v1" /\ ppc = "remove_names"
          /\ pidx < Len(gathered_names)) =>
          get_files_by_name(project.objects,
                            files_to_remove_names[pidx + 1]) = {}
    /\ (PatchSucceeded /\ script = "v2") =>
          \A i \in FileRefsOf(disk.objects) :
              /\ disk.objects[i].path \notin Range(paths_to_remove)
              /\ disk.objects[i].name \notin Range(names_to_remove)

\* a successful run of fix_project_paths on a graph where two file
\* references shared a name that only the removal by name looks up
C16_Witness ==
    /\ PatchSucceeded
    /\ script = "v1"
    /\ \E i, j \in FileRefsOf(loaded.objects) :
          /\ i # j
          /\ loaded.objects[i].name = "MessageRow.swift"
          /\ loaded.objects[j].name = "MessageRow.swift"
          /\ i \notin DOMAIN disk.objects
          /\ j \notin DOMAIN disk.objects

\* the fix fix_project_paths_v4.py holds for the identifier i
FixesFor(i) == {e \in Range(id_fixes) : e.id = i}

\* C17: after a successful run of fix_project_paths_v4 the saved graph is
\* the loaded one except that an object with a hard-coded identifier whose
\* path was the expected old value has the new path; and a successful run
\* on the graph an earlier successful run saved changes nothing.
C17_GuardedAndIdempotent ==
    (PatchSucceeded /\ script = "v4") =>
        /\ DOMAIN disk.objects = DOMAIN loaded.objects
        /\ \A i \in DOMAIN loaded.objects :
              LET was == loaded.objects[i]
                  hit == {e \in FixesFor(i) : was.path = e.old}
              IN IF hit = {}
                 THEN disk.objects[i] = was
                 ELSE \E e \in hit :
                         disk.objects[i] = [was EXCEPT !.path = e.new]
        /\ Len(runs) >= 1 => disk = runs[Len(runs)]

\* a second successful run on a graph whose path the first run rewrote
C17_Witness ==
    /\ PatchSucceeded
    /\ script = "v4"
    /\ Len(runs) = 1
    /\ \E e \in Range(id_fixes) :
          /\ e.id \in DOMAIN disk.objects
          /\ disk.objects[e.id].path = e.new

\* =========================================================================
\* Part 3: test_azure_connection.py
\* =========================================================================
\* line 27
api_versions ==
    <<"2025-01-01-preview", "2024-10-01-preview", "2024-08-01-preview",
      "2024-06-01">>

\* what client.chat.completions.create can do: raise, or return a response
\* with no choice, with choices but no usage, or with both
Outcomes == {"error", "no_choices", "no_usage", "complete"}

InitConnRun ==
    /\ cpc = "loop"
    /\ verIdx = 0
    /\ requests = <<>>
    /\ response = "none"
    /\ success = "none"
    /\ secrets_script = FALSE

\* lines 29-64: the next version of the list, a client for it and one
\* request; a request that raises is caught at line 81
ConnRequest ==
    /\ cpc = "loop"
    /\ verIdx < Len(api_versions)
    /\ \E o \in Outcomes :
          /\ requests' = Append(requests,
                 [version |-> api_versions[verIdx + 1], outcome |-> o])
          /\ response' = o
          /\ cpc' = IF o = "error" THEN "version_failed" ELSE "print_response"
    /\ UNCHANGED <<verIdx, success, secrets_script>>
    /\ UNCHANGED exceptConn

\* lines 66-79: the response is printed and the function returns True;
\* response.choices[0] (line 70) and response.usage.prompt_tokens (line 74)
\* raise on a response without them, inside the try block of line 30
ConnPrintResponse ==
    /\ cpc = "print_response"
    /\ IF response = "complete"
       THEN success' = "True" /\ cpc' = "returned"
       ELSE success' = success /\ cpc' = "version_failed"
    /\ UNCHANGED <<verIdx, requests, response, secrets_script>>
    /\ UNCHANGED exceptConn

\* lines 81-83: except Exception as version_error: print, continue
ConnVersionFailed ==
    /\ cpc = "version_failed"
    /\ verIdx' = verIdx + 1
    /\ cpc' = "loop"
    /\ UNCHANGED <<requests, response, success, secrets_script>>
    /\ UNCHANGED exceptConn

\* lines 85-86: the list is exhausted, return False
ConnAllFailed ==
    /\ cpc = "loop"
    /\ verIdx = Len(api_versions)
    /\ success' = "False"
    /\ cpc' = "returned"
    /\ UNCHANGED <<verIdx, requests, response, secrets_script>>
    /\ UNCHANGED exceptConn

\* lines 128-147 with 92-121: on success the secrets script is written
ConnCreateScript ==
    /\ cpc = "returned"
    /\ success = "True"
    /\ secrets_script' = TRUE
    /\ cpc' = "done"
    /\ UNCHANGED <<verIdx, requests, response, success>>
    /\ UNCHANGED exceptConn

\* lines 148-149: otherwise "Setup incomplete" is printed
ConnIncomplete ==
    /\ cpc = "returned"
    /\ success # "True"
    /\ cpc' = "done"
    /\ UNCHANGED <<verIdx, requests, response, success, secrets_script>>
    /\ UNCHANGED exceptConn

InitConn ==
    /\ InitConnRun
    /\ GeneratorIdle
    /\ PatchIdle
    /\ OptIdle

NextConn ==
    \/ ConnRequest
    \/ ConnPrintResponse
    \/ ConnVersionFailed
    \/ ConnAllFailed
    \/ ConnCreateScript
    \/ ConnIncomplete

SpecConn == InitConn /\ [][NextConn]_allVars

\* -------------------------------- properties of test_azure_connection.py
ConnReturned == cpc \in {"returned", "done"}

\* versions are tried in the order of the list, one request each
TriedInOrder ==
    /\ Len(requests) <= Len(api_versions)
    /\ \A k \in 1..Len(requests) : requests[k].version = api_versions[k]

\* C14: versions are tried in list order, one request each; no
\* version is tried after one whose request succeeded; the function
\* returns True iff the request of some version succeeded, and False only
\* after all four were tried and failed; the secrets script is written
\* only after True.
C14_StopsAtFirstSuccessfulRequest ==
    /\ TriedInOrder
    /\ \A k \in 1..Len(requests) - 1 : requests[k].outcome = "error"
    /\ ConnReturned =>
          (success = "True" <=>
              \E k \in 1..Len(requests) : requests[k].outcome # "error")
    /\ success = "False" =>
          /\ Len(requests) = Len(api_versions)
          /\ \A k \in 1..Len(requests) : requests[k].outcome = "error"
    /\ secrets_script => success = "True"

\* =========================================================================
\* Part 4: scripts/optimize_with_azure.py
\* =========================================================================
\* names of the files an archive can hold
Name_Chat   == <<"C", ".", "s", "w", "i", "f", "t">>
Name_View   == <<"V", ".", "s", "w", "i", "f", "t">>
Name_Readme == <<"R", ".", "m", "d">>

\* line counts on both sides of the two thresholds
LineSamples == {1, 200, 201, 400, 401}

\* a file of an archive: its name and len(content.split('\n'))
ArchiveFiles ==
    {[name |-> n, lines |-> l] : n \in {Name_Chat, Name_View},
                                 l \in LineSamples}
      \cup {[name |-> Name_Readme, lines |-> 1]}

\* the archives: no two files of one archive share a name
Archives ==
    {A \in SUBSET ArchiveFiles :
        \A f, g \in A : f.name = g.name => f = g}

\* what can be at zip_path: nothing, a file that is no archive, an archive
ZipFiles ==
    {NoZip, [exists |-> TRUE, valid |-> FALSE, files |-> {}]}
      \cup {[exists |-> TRUE, valid |-> TRUE, files |-> A] : A \in Archives}

\* zip_ref.extractall (lines 22-23): the files of the archive are written
\* into the directory, over files of the same name; the others stay
ExtractAll(dir, A) ==
    {f \in dir : \A g \in A : g.name # f.name} \cup A

\* a label that counts 400 lines as large
SizeCategory_From400(lines) ==
    IF lines >= 400 THEN "large" ELSE IF lines > 200 THEN "medium" ELSE "small"

\* line 43
SizeCategory(lines) ==
    IF lines > 400 THEN "large" ELSE IF lines > 200 THEN "medium" ELSE "small"

\* lines 38-44: the entry of a Swift file
SwiftEntry(f) ==
    [name |-> f.name, lines |-> f.lines,
     size_category |-> SizeCategory(f.lines)]

\* the orders in which os.walk can yield the files of S
Orderings(S) ==
    {q \in [1..Cardinality(S) -> S] :
        \A i, j \in 1..Cardinality(S) : i # j => q[i] # q[j]}

\* lines 29-44: the Swift files found under the directory, in walk order
FoundIn(dir) ==
    Orderings({SwiftEntry(f) : f \in {g \in dir : EndsWith(g.name, SwiftSuffix)}})

\* lines 53-55
IsLargeFile(f)  == f.lines > 400
IsMediumFile(f) == 200 < f.lines /\ f.lines <= 400
IsSmallFile(f)  == f.lines <= 200

\* line 60
max_files == 15

\* lines 53-63: create_optimization_prompt
BuildPrompt(sf) ==
    LET large_files  == SelectSeq(sf, IsLargeFile)
        medium_files == SelectSeq(sf, IsMediumFile)
        small_files  == SelectSeq(sf, IsSmallFile)
        all          == large_files \o medium_files \o small_files
    IN [built        |-> TRUE,
        large_files  |-> large_files,
        medium_files |-> medium_files,
        small_files  |-> small_files,
        included     |-> SubSeq(all, 1, IF Len(all) < max_files
                                        THEN Len(all) ELSE max_files)]

\* lines 172 and 211: the count of large files in the reports
LargeFilesCount(sf) == Len(SelectSeq(sf, LAMBDA f : f.lines > 400))

InitOptRun ==
    /\ opc = "start"
    /\ oargc \in {1, 2, 3}
    /\ zip_file \in ZipFiles
    /\ extracted = {}
    /\ found_files = <<>>
    /\ prompt = NoPrompt
    /\ api_key_set \in BOOLEAN
    /\ api_requests = 0
    /\ optimization_result = "none"
    /\ md_report = NoReport
    /\ json_report = NoReport
    /\ optExit = -1
    /\ optRuns = 0

\* lines 232-236
OptStart ==
    /\ opc = "start"
    /\ IF oargc # 2
       THEN opc' = "exited" /\ optExit' = 1
       ELSE opc' = "exists" /\ optExit' = optExit
    /\ UNCHANGED <<oargc, zip_file, extracted, found_files, prompt,
                   api_key_set, api_requests, optimization_result, md_report,
                   json_report, optRuns>>
    /\ UNCHANGED exceptOpt

\* lines 238-240
OptCheckZip ==
    /\ opc = "exists"
    /\ IF ~zip_file.exists
       THEN opc' = "exited" /\ optExit' = 1
       ELSE opc' = "extract" /\ optExit' = optExit
    /\ UNCHANGED <<oargc, zip_file, extracted, found_files, prompt,
                   api_key_set, api_requests, optimization_result, md_report,
                   json_report, optRuns>>
    /\ UNCHANGED exceptOpt

\* line 246, extract_swift_files (lines 15-47): the archive is unpacked
\* into swift_extracted, which may exist (line 18), and the directory is
\* walked.  zipfile.ZipFile raises on a file that is no archive; main does
\* not catch it and the process ends with exit code 1.
OptExtract ==
    /\ opc = "extract"
    /\ IF ~zip_file.valid
       THEN /\ opc' = "exited"
            /\ optExit' = 1
            /\ UNCHANGED <<extracted, found_files>>
       ELSE /\ extracted' = ExtractAll(extracted, zip_file.files)
            /\ found_files' \in FoundIn(extracted')
            /\ opc' = "check"
            /\ optExit' = optExit
    /\ UNCHANGED <<oargc, zip_file, prompt, api_key_set, api_requests,
                   optimization_result, md_report, json_report, optRuns>>
    /\ UNCHANGED exceptOpt

\* lines 248-250
OptCheckFound ==
    /\ opc = "check"
    /\ IF found_files = <<>>
       THEN opc' = "exited" /\ optExit' = 1
       ELSE opc' = "prompt" /\ optExit' = optExit
    /\ UNCHANGED <<oargc, zip_file, extracted, found_files, prompt,
                   api_key_set, api_requests, optimization_result, md_report,
                   json_report, optRuns>>
    /\ UNCHANGED exceptOpt

\* line 253
OptPrompt ==
    /\ opc = "prompt"
    /\ prompt' = BuildPrompt(found_files)
    /\ opc' = "client"
    /\ UNCHANGED <<oargc, zip_file, extracted, found_files, api_key_set,
                   api_requests, optimization_result, md_report, json_report,
                   optExit, optRuns>>
    /\ UNCHANGED exceptOpt

\* lines 121-125: the client is built outside the try block; with no key
\* in the environment the constructor raises and the process ends with
\* exit code 1
OptClient ==
    /\ opc = "client"
    /\ IF api_key_set
       THEN opc' = "request" /\ optExit' = optExit
       ELSE opc' = "exited" /\ optExit' = 1
    /\ UNCHANGED <<oargc, zip_file, extracted, found_files, prompt,
                   api_key_set, api_requests, optimization_result, md_report,
                   json_report, optRuns>>
    /\ UNCHANGED exceptOpt

\* lines 132-154: one request; its content is returned, or, if anything
\* in the try block raises, the error message
OptRequest ==
    /\ opc = "request"
    /\ api_requests' = api_requests + 1
    /\ optimization_result' \in {"analysis", "error_msg"}
    /\ opc' = "save_md"
    /\ UNCHANGED <<oargc, zip_file, extracted, found_files, prompt,
                   api_key_set, md_report, json_report, optExit, optRuns>>
    /\ UNCHANGED exceptOpt

\* lines 159-204: optimization_results.md
OptSaveMarkdown ==
    /\ opc = "save_md"
    /\ md_report' = [written       |-> TRUE,
                     total_files   |-> Len(found_files),
                     large_files   |-> LargeFilesCount(found_files),
                     result        |-> optimization_result]
    /\ opc' = "save_json"
    /\ UNCHANGED <<oargc, zip_file, extracted, found_files, prompt,
                   api_key_set, api_requests, optimization_result,
                   json_report, optExit, optRuns>>
    /\ UNCHANGED exceptOpt

\* lines 207-223: swift_analysis.json
OptSaveJson ==
    /\ opc = "save_json"
    /\ json_report' = [written           |-> TRUE,
                       total_files       |-> Len(found_files),
                       large_files_count |-> LargeFilesCount(found_files),
                       files             |-> found_files,
                       result            |-> optimization_result]
    /\ opc' = "finish"
    /\ UNCHANGED <<oargc, zip_file, extracted, found_files, prompt,
                   api_key_set, api_requests, optimization_result, md_report,
                   optExit, optRuns>>
    /\ UNCHANGED exceptOpt

\* lines 225-227 and 261-265: main returns, exit code 0
OptFinish ==
    /\ opc = "finish"
    /\ opc' = "exited"
    /\ optExit' = 0
    /\ UNCHANGED <<oargc, zip_file, extracted, found_files, prompt,
                   api_key_set, api_requests, optimization_result, md_report,
                   json_report, optRuns>>
    /\ UNCHANGED exceptOpt

\* the script is run again in the same working directory, on another file:
\* swift_extracted is as the earlier run left it
OptRerun ==
    /\ opc = "exited"
    /\ optRuns + 1 < MaxRuns
    /\ optRuns' = optRuns + 1
    /\ zip_file' \in ZipFiles
    /\ opc' = "start"
    /\ found_files' = <<>>
    /\ prompt' = NoPrompt
    /\ api_requests' = 0
    /\ optimization_result' = "none"
    /\ md_report' = NoReport
    /\ json_report' = NoReport
    /\ optExit' = -1
    /\ UNCHANGED <<oargc, extracted, api_key_set>>
    /\ UNCHANGED exceptOpt

InitOpt ==
    /\ InitOptRun
    /\ GeneratorIdle
    /\ PatchIdle
    /\ ConnIdle

NextOpt ==
    \/ OptStart
    \/ OptCheckZip
    \/ OptExtract
    \/ OptCheckFound
    \/ OptPrompt
    \/ OptClient
    \/ OptRequest
    \/ OptSaveMarkdown
    \/ OptSaveJson
    \/ OptFinish
    \/ OptRerun

SpecOpt == InitOpt /\ [][NextOpt]_allVars

\* ------------------------------- properties of scripts/optimize_with_azure.py
InSeq(f, q) == \E i \in 1..Len(q) : q[i] = f

\* the class create_optimization_prompt put the file in, as a set (one
\* element if the classes partition the files)
PromptClasses(f) ==
    {c \in {"large", "medium", "small"} :
        \/ c = "large"  /\ InSeq(f, prompt.large_files)
        \/ c = "medium" /\ InSeq(f, prompt.medium_files)
        \/ c = "small"  /\ InSeq(f, prompt.small_files)}

\* files of found_files extract_swift_files labelled c
Labelled(c) ==
    {k \in 1..Len(found_files) : found_files[k].size_category = c}

\* C15: every file found is in exactly one of the three classes of
\* create_optimization_prompt, that class is its size_category label, the
\* three classes together have as many files as were found, and the large
\* file count of both reports is the number of files labelled large.
C15_SizeClassesAgree ==
    /\ prompt.built =>
          /\ \A k \in 1..Len(found_files) :
                PromptClasses(found_files[k]) =
                    {found_files[k].size_category}
          /\ Len(prompt.large_files) + Len(prompt.medium_files)
               + Len(prompt.small_files) = Len(found_files)
          /\ Len(prompt.large_files) = Cardinality(Labelled("large"))
          /\ Len(prompt.medium_files) = Cardinality(Labelled("medium"))
          /\ Len(prompt.small_files) = Cardinality(Labelled("small"))
    /\ md_report.written =>
          /\ md_report.large_files = Cardinality(Labelled("large"))
          /\ md_report.total_files = Len(found_files)
    /\ json_report.written =>
          /\ json_report.large_files_count = Cardinality(Labelled("large"))
          /\ json_report.total_files = Len(found_files)

\* both reports are written for a file of 400 lines and one of 401 lines
C15_Witness ==
    /\ json_report.written
    /\ md_report.written
    /\ \E i, j \in 1..Len(found_files) :
          /\ found_files[i].lines = 400
          /\ found_files[i].size_category = "medium"
          /\ found_files[j].lines = 401
          /\ found_files[j].size_category = "large"

ArchiveHasSwift ==
    \E f \in zip_file.files : EndsWith(f.name, SwiftSuffix)

\* C18: when the argument count is wrong, the zip file does not exist or
\* the archive holds no Swift file, the run ends with exit code 1, no
\* request sent and no report written; when the request fails the error
\* message is the result, both reports are written with it and the run
\* ends with exit code 0.
C18_EarlyExitsAndTolerantRequest ==
    /\ (opc = "exited"
          /\ (oargc # 2 \/ ~zip_file.exists
                \/ (zip_file.valid /\ ~ArchiveHasSwift))) =>
          /\ optExit = 1
          /\ api_requests = 0
          /\ ~md_report.written
          /\ ~json_report.written
    /\ (opc = "exited" /\ optimization_result = "error_msg") =>
          /\ optExit = 0
          /\ md_report.written
          /\ md_report.result = "error_msg"
          /\ json_report.written
          /\ json_report.result = "error_msg"

====
